---- MODULE Spec2Model ----
(***************************************************************************)
(* Model of the Triton kernel _layer_norm_fwd_fused                        *)
(* (src/layer_norm_forward.py): one program instance per row, three        *)
(* chunked passes over the row (mean, variance, normalize-and-affine).     *)
(*                                                                         *)
(* Numbers.  The kernel computes in float32; the model computes in exact   *)
(* arithmetic.  A rational is a pair <<n, d>> with d > 0 in lowest terms.  *)
(* The one irrational operation, tl.sqrt, is kept symbolic: a value of     *)
(* the form c / sqrt(q) + b is the record [c, q, b] with c, q, b rational  *)
(* (q > 0).  Rounding, overflow and non-finite floats are not modelled.    *)
(*                                                                         *)
(* Memory.  A buffer is a function from addresses to values.  Each         *)
(* instance keeps, beside the kernel's local variables, a record of the    *)
(* locations it has loaded and stored.                                     *)
(***************************************************************************)
EXTENDS Integers, Sequences, FiniteSets, TLC

\* ---------------------------------------------------------------- bounds
MaxN == 4          \* N ranges over 1..MaxN
MaxBlockLog == 2   \* BLOCK_SIZE ranges over 2^0 .. 2^MaxBlockLog
MaxRows == 2       \* the grid has 1..MaxRows program instances
MaxPad == 1        \* stride is N (dense rows) or N + MaxPad (padded rows)
MaxElems == 7      \* a launch normalises at most MaxElems elements: M * N <= MaxElems

VARIABLES
    N,           \* kernel parameter N: number of columns
    BLOCK_SIZE,  \* kernel parameter BLOCK_SIZE (tl.constexpr)
    stride,      \* kernel parameter stride: distance between rows of X and Y
    M,           \* grid size: program ids 0..M-1
    eps,         \* kernel parameter eps
    X, W, B,     \* input buffers  (address -> rational)
    Y,           \* output buffer  (address -> surd value)
    Mean,        \* output buffer  (row -> rational)
    Rstd,        \* output buffer  (row -> surd value)
    proc,        \* per program instance: pc and the kernel's local variables
    run,         \* "first" or "second" launch of the grid on the same buffers
    startOut     \* the output buffers as they were when the current launch began

vars == <<N, BLOCK_SIZE, stride, M, eps, X, W, B, Y, Mean, Rstd, proc, run, startOut>>

\* ------------------------------------------------------------- rationals
\* The arithmetic is written as functions: a function is applied to the
\* values of its arguments, so an argument is computed once however often
\* the body uses it.
Rat == Int \X Int
Q(n) == <<n, 1>>
Abs[n \in Int] == IF n < 0 THEN -n ELSE n
GCD[a \in Nat, b \in Nat] == IF b = 0 THEN a ELSE GCD[b, a % b]

Norm[n \in Int, d \in Nat] ==
    LET g == GCD[Abs[n], d]
    IN  IF n >= 0 THEN <<n \div g, d \div g>> ELSE <<-((-n) \div g), d \div g>>
Inv[a \in Rat] == IF a[1] > 0 THEN <<a[2], a[1]>> ELSE <<-a[2], -a[1]>>
QNeg[a \in Rat] == <<-a[1], a[2]>>
QMul[a \in Rat, b \in Rat] ==
    LET g1 == GCD[Abs[a[1]], b[2]]
        g2 == GCD[Abs[b[1]], a[2]]
        s1 == IF a[1] >= 0 THEN 1 ELSE -1
        s2 == IF b[1] >= 0 THEN 1 ELSE -1
    IN  <<s1 * s2 * (Abs[a[1]] \div g1) * (Abs[b[1]] \div g2), (a[2] \div g2) * (b[2] \div g1)>>
QDiv[a \in Rat, b \in Rat] == QMul[a, Inv[b]]
QAdd[a \in Rat, b \in Rat] ==
    LET g == GCD[a[2], b[2]]
    IN  Norm[a[1] * (b[2] \div g) + b[1] * (a[2] \div g), (a[2] \div g) * b[2]]
QSub[a \in Rat, b \in Rat] == QAdd[a, QNeg[b]]

\* ----------------------------------------------- values c / sqrt(q) + b
Val == [c : Rat, q : Rat, b : Rat]
Surd[c \in Rat, q \in Rat, b \in Rat] == [c |-> c, q |-> IF c = Q(0) THEN Q(1) ELSE q, b |-> b]
FromQ(a) == Surd[Q(0), Q(1), a]
\* tl.sqrt(a) for rational a > 0:  sqrt(a) = a / sqrt(a)
Sqrt[a \in Rat] == Surd[a, a, Q(0)]
\* 1 / v for v = c / sqrt(q):  sqrt(q) / c = (q / c) / sqrt(q)
Recip[v \in Val] == Surd[QDiv[v.q, v.c], v.q, Q(0)]
\* a * v and v + a for rational a
Scale[a \in Rat, v \in Val] == Surd[QMul[a, v.c], v.q, QMul[a, v.b]]
Shift[v \in Val, a \in Rat] == Surd[v.c, v.q, QAdd[v.b, a]]

\* Contents of memory that no one has written, and of lanes a masked load
\* leaves undefined.
Garbage == Q(-77)
UndefVals == {Q(0), Garbage}

\* Value of a local variable that has not been assigned yet.
Unbound == <<0, 0>>
UnboundVal == [c |-> Unbound, q |-> Unbound, b |-> Unbound]

\* ------------------------------------------------------- launch parameters
Rows == 0 .. M - 1
Cols == 0 .. N - 1
Pow2(k) == IF k = 0 THEN 1 ELSE IF k = 1 THEN 2 ELSE IF k = 2 THEN 4 ELSE IF k = 3 THEN 8 ELSE 16
BlockSizes == {Pow2(k) : k \in 0 .. MaxBlockLog}

\* Row contents the launches are tried on.  Row 0 of "ramp" is 1, 2, 3, 4, ...
XPatterns == {"ramp", "alt"}
XGen(p, r, j) ==
    CASE p = "ramp"  -> j + 1 + 2 * r
      [] p = "alt"   -> IF j % 2 = 0 THEN 2 + r ELSE -(2 + r)

\* Weight and bias vectors the launches are tried on.
AffinePatterns == {"unit", "zeroW", "ramp"}
WGen(p, j) == CASE p = "unit" -> 1 [] p = "zeroW" -> 0 [] p = "ramp" -> j + 2
BGen(p, j) == CASE p = "unit" -> 0 [] p = "zeroW" -> j + 2 [] p = "ramp" -> 5 - j

\* ------------------------------------------------------------ the kernel
\* Mutant: the row offset forgotten.
RowBaseZero(row) == 0

\* X += row * stride ; Y += row * stride
RowBase(row) == row * stride

\* tl.arange(0, BLOCK_SIZE)
Lanes == 0 .. BLOCK_SIZE - 1

\* tl.zeros([BLOCK_SIZE], dtype = tl.float32)
Zeros == [i \in Lanes |-> Q(0)]

\* Mutants of the masks: the bound taken inclusive; no mask at all.
LoadMaskInclusive(off) == off <= N
StoreMaskNone(off) == TRUE

\* mask = off < N
LoadMask(off) == off < N
StoreMask(off) == off < N

MemRead(mem, a) == IF a \in DOMAIN mem THEN mem[a] ELSE Garbage

\* tl.load(ptr + off, mask = off < N, other = other), off = col + tl.arange
MaskedLoad(mem, base, col, other) ==
    [i \in Lanes |-> IF LoadMask(col + i) THEN MemRead(mem, base + col + i) ELSE other]

\* Mutant: the store accumulates into memory (an atomic add in place of a store).
Accumulate(old, new) ==
    IF old.c = Q(0) THEN Shift[new, old.b]
    ELSE Surd[QAdd[old.c, new.c], new.q, QAdd[old.b, new.b]]
MaskedStoreAdd(mem, base, col, vals) ==
    [a \in DOMAIN mem |->
        IF \E i \in Lanes : StoreMask(col + i) /\ base + col + i = a
        THEN Accumulate(mem[a], vals[CHOOSE i \in Lanes : StoreMask(col + i) /\ base + col + i = a])
        ELSE mem[a]]

\* tl.store(ptr + off, vals, mask = mask)
MaskedStore(mem, base, col, vals) ==
    [a \in DOMAIN mem |->
        IF \E i \in Lanes : StoreMask(col + i) /\ base + col + i = a
        THEN vals[CHOOSE i \in Lanes : StoreMask(col + i) /\ base + col + i = a]
        ELSE mem[a]]

\* tl.sum(v, axis = 0)
RECURSIVE SumTo(_, _)
SumTo(v, n) == IF n = 0 THEN Q(0) ELSE QAdd[SumTo(v, n - 1), v[n - 1]]
Sum(v) == SumTo(v, BLOCK_SIZE)

\* tl.where(cond, x, others)
Where(cond, x, others) == IF cond THEN x ELSE others

\* x = tl.where(col < N, x - mean, others = 0.)
Centered(col, x, mean) == [i \in Lanes |-> Where(col < N, QSub[x[i], mean], Q(0))]

\* Mutants of the affine step: the bias dropped; the bias added to the weight.
AffineNoBias(x, mean, rstd, w, b) == Scale[w, Scale[QSub[x, mean], rstd]]
AffineBiasInside(x, mean, rstd, w, b) == Scale[QAdd[w, b], Scale[QSub[x, mean], rstd]]

\* y = (x - mean) * rstd * w + b
Affine(x, mean, rstd, w, b) == Shift[Scale[w, Scale[QSub[x, mean], rstd]], b]

\* Mutant: the loop advances by one column instead of one chunk.
NextColByOne(col) == col + 1

\* for col in range(0, N, BLOCK_SIZE): the next value of col
NextCol(col) == col + BLOCK_SIZE

\* Mutant: the two stores of the statistics are skipped.
PcSkipStores == "norm"

\* The statement that follows "rstd = 1 / tl.sqrt(var + eps)"
PcAfterVar == "store_mean"

\* Offsets from the base pointer that the masked loads and the masked store
\* of one chunk touch.
LoadOffsets(col) == {col + i : i \in {l \in Lanes : LoadMask(col + l)}}
StoreOffsets(col) == {col + i : i \in {l \in Lanes : StoreMask(col + l)}}
\* The same, as locations of buffer buf.
Touched(buf, base, offs) == {<<buf, base + o>> : o \in offs}
\* How many times each offset has been touched, after one more chunk.
Count(cnt, offs) ==
    [o \in DOMAIN cnt \cup offs |->
        (IF o \in DOMAIN cnt THEN cnt[o] ELSE 0) + (IF o \in offs THEN 1 ELSE 0)]

\* pc, col and the kernel's local variables (mean, _mean, _var, var, rstd),
\* then the record of what the instance has done: it, the iterations of the
\* current loop; cnt, how often the current loop touched each column offset;
\* ld and st, the locations loaded and stored since the launch.
InitProc ==
    [pc |-> "mean", col |-> 0, mean |-> Q(0), _mean |-> Zeros,
     _var |-> <<>>, var |-> Unbound, rstd |-> UnboundVal,
     it |-> 0, cnt |-> <<>>, ld |-> {}, st |-> {}]

Init ==
    /\ N \in 1 .. MaxN
    /\ BLOCK_SIZE \in BlockSizes
    /\ stride \in {N, N + MaxPad}
    /\ M \in {m \in 1 .. MaxRows : m * N <= MaxElems}
    /\ eps = <<1, 100000>>
    /\ \E p \in XPatterns :
         X = [a \in 0 .. M * stride - 1 |->
                IF a % stride < N THEN Q(XGen(p, a \div stride, a % stride)) ELSE Garbage]
    /\ \E p \in AffinePatterns :
         /\ W = [j \in Cols |-> Q(WGen(p, j))]
         /\ B = [j \in Cols |-> Q(BGen(p, j))]
    /\ Y = [a \in 0 .. M * stride - 1 |-> FromQ(Garbage)]
    /\ Mean = [r \in Rows |-> Garbage]
    /\ Rstd = [r \in Rows |-> FromQ(Garbage)]
    /\ proc = [r \in Rows |-> InitProc]
    /\ run = "first"
    /\ startOut = [Y |-> Y, Mean |-> Mean, Rstd |-> Rstd]

params == <<N, BLOCK_SIZE, stride, M, eps>>
inputs == <<X, W, B>>
outputs == <<Y, Mean, Rstd>>

\* Mean pass, one iteration:  a = tl.load(X + off, ...) ; _mean += a
MeanChunk(r) ==
    LET p == proc[r]
        a == MaskedLoad(X, RowBase(r), p.col, Q(0))
    IN  /\ p.pc = "mean"
        /\ p.col < N
        /\ proc' = [proc EXCEPT ![r] =
                      [p EXCEPT !._mean = [i \in Lanes |-> QAdd[p._mean[i], a[i]]],
                                !.col = NextCol(p.col),
                                !.it = p.it + 1,
                                !.cnt = Count(p.cnt, LoadOffsets(p.col)),
                                !.ld = p.ld \cup Touched("X", RowBase(r), LoadOffsets(p.col))]]
        /\ UNCHANGED <<params, inputs, outputs, run, startOut>>

\* mean = tl.sum(_mean, axis = 0) / N ; _var = tl.zeros(...)
MeanFinish(r) ==
    LET p == proc[r]
    IN  /\ p.pc = "mean"
        /\ p.col >= N
        /\ proc' = [proc EXCEPT ![r] =
                      [p EXCEPT !.mean = QDiv[Sum(p._mean), Q(N)],
                                !._var = Zeros,
                                !.col = 0, !.pc = "var", !.it = 0, !.cnt = <<>>]]
        /\ UNCHANGED <<params, inputs, outputs, run, startOut>>

\* Variance pass, one iteration:  x = tl.load(...) ; x = tl.where(...) ;
\* _var += x * x
VarChunk(r) ==
    LET p == proc[r]
        x0 == MaskedLoad(X, RowBase(r), p.col, Q(0))
        x == Centered(p.col, x0, p.mean)
    IN  /\ p.pc = "var"
        /\ p.col < N
        /\ proc' = [proc EXCEPT ![r] =
                      [p EXCEPT !._var = [i \in Lanes |-> QAdd[p._var[i], QMul[x[i], x[i]]]],
                                !.col = NextCol(p.col),
                                !.it = p.it + 1,
                                !.cnt = Count(p.cnt, LoadOffsets(p.col)),
                                !.ld = p.ld \cup Touched("X", RowBase(r), LoadOffsets(p.col))]]
        /\ UNCHANGED <<params, inputs, outputs, run, startOut>>

\* var = tl.sum(_var, axis = 0) / N ; rstd = 1 / tl.sqrt(var + eps)
VarFinish(r) ==
    LET p == proc[r]
        v == QDiv[Sum(p._var), Q(N)]
    IN  /\ p.pc = "var"
        /\ p.col >= N
        /\ proc' = [proc EXCEPT ![r] =
                      [p EXCEPT !.var = v,
                                !.rstd = Recip[Sqrt[QAdd[v, eps]]],
                                !.pc = PcAfterVar, !.col = 0, !.it = 0, !.cnt = <<>>]]
        /\ UNCHANGED <<params, inputs, outputs, run, startOut>>

\* tl.store(Mean + row, mean)
StoreMean(r) ==
    LET p == proc[r]
    IN  /\ p.pc = "store_mean"
        /\ Mean' = [Mean EXCEPT ![r] = p.mean]
        /\ proc' = [proc EXCEPT ![r] =
                      [p EXCEPT !.pc = "store_rstd", !.st = p.st \cup {<<"Mean", r>>}]]
        /\ UNCHANGED <<params, inputs, Y, Rstd, run, startOut>>

\* tl.store(Rstd + row, rstd)
StoreRstd(r) ==
    LET p == proc[r]
    IN  /\ p.pc = "store_rstd"
        /\ Rstd' = [Rstd EXCEPT ![r] = p.rstd]
        /\ proc' = [proc EXCEPT ![r] =
                      [p EXCEPT !.pc = "norm", !.st = p.st \cup {<<"Rstd", r>>}]]
        /\ UNCHANGED <<params, inputs, Y, Mean, run, startOut>>

\* Normalize-and-affine pass, one iteration.  The loads of W and B give no
\* "other": their masked lanes hold an undefined value u.
NormChunk(r) ==
    LET p == proc[r]
    IN  /\ p.pc = "norm"
        /\ p.col < N
        /\ \E u \in UndefVals :
             LET w == MaskedLoad(W, 0, p.col, u)
                 b == MaskedLoad(B, 0, p.col, u)
                 x == MaskedLoad(X, RowBase(r), p.col, Q(0))
                 y == [i \in Lanes |-> Affine(x[i], p.mean, p.rstd, w[i], b[i])]
             IN  Y' = MaskedStore(Y, RowBase(r), p.col, y)
        /\ proc' = [proc EXCEPT ![r] =
                      [p EXCEPT !.col = NextCol(p.col),
                                !.it = p.it + 1,
                                !.cnt = Count(p.cnt, StoreOffsets(p.col)),
                                !.ld = p.ld \cup Touched("W", 0, LoadOffsets(p.col))
                                            \cup Touched("B", 0, LoadOffsets(p.col))
                                            \cup Touched("X", RowBase(r), LoadOffsets(p.col)),
                                !.st = p.st \cup Touched("Y", RowBase(r), StoreOffsets(p.col))]]
        /\ UNCHANGED <<params, inputs, Mean, Rstd, run, startOut>>

\* The loop of the third pass ends and the instance returns.
NormFinish(r) ==
    LET p == proc[r]
    IN  /\ p.pc = "norm"
        /\ p.col >= N
        /\ proc' = [proc EXCEPT ![r] = [p EXCEPT !.pc = "done"]]
        /\ UNCHANGED <<params, inputs, outputs, run, startOut>>

AllDone == \A r \in Rows : proc[r].pc = "done"

\* The same grid is launched a second time on the same buffers.
Relaunch ==
    /\ run = "first"
    /\ AllDone
    /\ run' = "second"
    /\ startOut' = [Y |-> Y, Mean |-> Mean, Rstd |-> Rstd]
    /\ proc' = [r \in Rows |-> InitProc]
    /\ UNCHANGED <<params, inputs, outputs>>

Step(r) ==
    \/ MeanChunk(r)
    \/ MeanFinish(r)
    \/ VarChunk(r)
    \/ VarFinish(r)
    \/ StoreMean(r)
    \/ StoreRstd(r)
    \/ NormChunk(r)
    \/ NormFinish(r)

Next ==
    \/ \E r \in Rows : MeanChunk(r)
    \/ \E r \in Rows : MeanFinish(r)
    \/ \E r \in Rows : VarChunk(r)
    \/ \E r \in Rows : VarFinish(r)
    \/ \E r \in Rows : StoreMean(r)
    \/ \E r \in Rows : StoreRstd(r)
    \/ \E r \in Rows : NormChunk(r)
    \/ \E r \in Rows : NormFinish(r)
    \/ Relaunch

Spec == Init /\ [][Next]_vars

\* The grid scheduler keeps running the instances it has launched: while some
\* instance has a step to take, one of them takes it.
RowStep == \E r \in Rows : Step(r)
FairSpec == Spec /\ WF_vars(RowStep)

\* ------------------------------------------- the launch, rows run in turn
\* The three loops of one instance, run from col to the end of the row.
RECURSIVE MeanLoop(_, _, _)
MeanLoop(r, col, acc) ==
    IF col < N
    THEN LET a == MaskedLoad(X, RowBase(r), col, Q(0))
         IN  MeanLoop(r, NextCol(col), [i \in Lanes |-> QAdd[acc[i], a[i]]])
    ELSE acc

RECURSIVE VarLoop(_, _, _, _)
VarLoop(r, col, acc, mean) ==
    IF col < N
    THEN LET x == Centered(col, MaskedLoad(X, RowBase(r), col, Q(0)), mean)
         IN  VarLoop(r, NextCol(col), [i \in Lanes |-> QAdd[acc[i], QMul[x[i], x[i]]]], mean)
    ELSE acc

RECURSIVE NormLoop(_, _, _, _, _)
NormLoop(r, col, y, mean, rstd) ==
    IF col < N
    THEN LET w == MaskedLoad(W, 0, col, Q(0))
             b == MaskedLoad(B, 0, col, Q(0))
             x == MaskedLoad(X, RowBase(r), col, Q(0))
             v == [i \in Lanes |-> Affine(x[i], mean, rstd, w[i], b[i])]
         IN  NormLoop(r, NextCol(col), MaskedStore(y, RowBase(r), col, v), mean, rstd)
    ELSE y

\* The output buffers after instance r has run alone, from start to end, on out.
RunRow(r, out) ==
    LET mean == QDiv[Sum(MeanLoop(r, 0, Zeros)), Q(N)]
        var == QDiv[Sum(VarLoop(r, 0, Zeros, mean)), Q(N)]
        rstd == Recip[Sqrt[QAdd[var, eps]]]
    IN  [Y |-> NormLoop(r, 0, out.Y, mean, rstd),
         Mean |-> [out.Mean EXCEPT ![r] = mean],
         Rstd |-> [out.Rstd EXCEPT ![r] = rstd]]

\* Instances k, k+1, ..., M-1 run one after another.
RECURSIVE RunRowsFrom(_, _)
RunRowsFrom(k, out) == IF k >= M THEN out ELSE RunRowsFrom(k + 1, RunRow(k, out))

\* ------------------------------------------------------------ the claims
\* What the row's statistics are, by the textbook definitions.
XAt(r, j) == X[r * stride + j]
RECURSIVE SumCols(_, _)
SumCols(f, n) == IF n = 0 THEN Q(0) ELSE QAdd[SumCols(f, n - 1), f[n - 1]]
RowMean(r) == QDiv[SumCols([j \in Cols |-> XAt(r, j)], N), Q(N)]
RowVar(r) ==
    LET d == [j \in Cols |-> QSub[XAt(r, j), RowMean(r)]]
    IN  QDiv[SumCols([j \in Cols |-> QMul[d[j], d[j]]], N), Q(N)]
Min(a, b) == IF a < b THEN a ELSE b
CeilDiv(a, b) == (a + b - 1) \div b
OutNow == [Y |-> Y, Mean |-> Mean, Rstd |-> Rstd]

PastMean(p) == p.pc # "mean"
PastVar(p) == p.pc \in {"store_mean", "store_rstd", "norm", "done"}
RowIs(r, xs) == N = Len(xs) /\ \A j \in Cols : XAt(r, j) = Q(xs[j + 1])

\* C1: the variance pass accumulates zero for every masked lane (offset >= N)
\* of the final chunk, so the running sum is the sum of the squared deviations
\* of the columns scanned so far, and the reduced sum divided by N is the
\* population variance of exactly the row's N elements.
C1_MaskedLanesAddNoDeviation ==
    \A r \in Rows :
        LET p == proc[r]
            d == [j \in Cols |-> QSub[XAt(r, j), p.mean]]
            sq == [j \in Cols |-> QMul[d[j], d[j]]]
        IN  /\ p.pc = "var" => Sum(p._var) = SumCols(sq, Min(p.col, N))
            /\ PastVar(p) => p.var = RowVar(r)

\* C2: the mean pass yields mean = (sum of X[row, j] for j < N) / N: lanes at
\* offsets >= N are loaded as 0 and add nothing to the running sum, every
\* column j < N is added exactly once, and row [1,2,3,4] with N = 4 and
\* BLOCK_SIZE = 4 has mean 5/2.
C2_MeanIsRowMean ==
    \A r \in Rows :
        LET p == proc[r]
            row == [j \in Cols |-> XAt(r, j)]
        IN  /\ p.pc = "mean" =>
                /\ Sum(p._mean) = SumCols(row, Min(p.col, N))
                /\ DOMAIN p.cnt = 0 .. Min(p.col, N) - 1
                /\ \A o \in DOMAIN p.cnt : p.cnt[o] = 1
            /\ PastMean(p) => p.mean = RowMean(r)
            /\ PastMean(p) /\ RowIs(r, <<1, 2, 3, 4>>) /\ BLOCK_SIZE = 4 => p.mean = <<5, 2>>

\* A row of 3 columns scanned in chunks of 2 (the last chunk has a masked
\* lane) has its mean computed.
C2_Witness ==
    \E r \in Rows :
        /\ RowIs(r, <<1, 2, 3>>) /\ BLOCK_SIZE = 2
        /\ proc[r].pc = "var" /\ proc[r].mean = Q(2)

\* C9: the value stored in Rstd[row] is 1 / sqrt(v + eps), v the population
\* variance (divisor N) of the row's N elements.
C9_RstdIsRsqrtOfRowVar ==
    \A r \in Rows :
        <<"Rstd", r>> \in proc[r].st => Rstd[r] = Recip[Sqrt[QAdd[RowVar(r), eps]]]

Done(r) == proc[r].pc = "done"

\* C3: once the instance of a row has completed, every column j < N holds
\* Y[row, j] = (X[row, j] - Mean[row]) * Rstd[row] * W[j] + B[j], Mean[row]
\* and Rstd[row] being the values stored for that row.
C3_OutputIsAffineOfStoredStats ==
    \A r \in Rows :
        Done(r) =>
            \A j \in Cols :
                Y[r * stride + j] =
                    Shift[Scale[QMul[QSub[XAt(r, j), Mean[r]], W[j]], Rstd[r]], B[j]]

\* A completed row whose output has a part that scales with rstd and a part
\* that comes from the bias.
C3_Witness ==
    \E r \in Rows :
        /\ Done(r) /\ N >= 2
        /\ \E j \in Cols : Y[r * stride + j].c # Q(0) /\ Y[r * stride + j].b # Q(0)

\* C4: no location at a column offset >= N from the row's base is read from
\* X, W or B or written to Y, in any pass and for any stride >= N and
\* BLOCK_SIZE; the padding columns N..stride-1 of X and Y keep their initial
\* contents.
C4_NoAccessBeyondN ==
    /\ \A r \in Rows :
          \A e \in proc[r].ld \cup proc[r].st :
              /\ e[1] \in {"X", "Y"} => e[2] - r * stride \in Cols
              /\ e[1] \in {"W", "B"} => e[2] \in Cols
    /\ \A a \in DOMAIN X :
          a % stride >= N => X[a] = Garbage /\ Y[a] = FromQ(Garbage)

\* A padded row whose last chunk has masked lanes has been written out.
C4_Witness ==
    \E r \in Rows :
        /\ Done(r) /\ stride > N /\ N % BLOCK_SIZE # 0
        /\ \A j \in Cols : <<"Y", r * stride + j>> \in proc[r].st

\* C7: if W[j] = 0 for every j < N, a completed row has Y[row, j] = B[j] for
\* every j < N, whatever X holds.
C7_ZeroWeightGivesBias ==
    \A r \in Rows :
        (Done(r) /\ \A j \in Cols : W[j] = Q(0)) =>
            \A j \in Cols : Y[r * stride + j] = FromQ(B[j])

\* A completed row under zero weights, non-zero bias and a row of X that
\* differs from its mean.
C7_Witness ==
    \E r \in Rows :
        /\ Done(r) /\ N >= 2
        /\ \A j \in Cols : W[j] = Q(0) /\ B[j] # Q(0)
        /\ XAt(r, 0) # Mean[r]

\* C5: within one instance the passes are strictly ordered.  The variance
\* pass starts only when the mean loop has run all its chunks, and mean does
\* not change afterwards; every store to Y's row comes after the stores of
\* Mean[row] and Rstd[row], which then hold the very mean and rstd the
\* instance computes Y with; and once stored they are not changed again by
\* that launch.
C5_StepOrdered ==
    \A r \in Rows :
        LET p == proc[r]
            q == proc'[r]
            sameLaunch == run' = run
            storesY == \E e \in q.st \ p.st : e[1] = "Y"
        IN  /\ (p.pc = "mean" /\ q.pc # "mean") =>
                  p.col >= N /\ p.it = CeilDiv(N, BLOCK_SIZE) /\ q.pc = "var"
            /\ (PastMean(p) /\ sameLaunch) => q.mean = p.mean
            /\ (PastVar(p) /\ sameLaunch) => q.rstd = p.rstd
            /\ storesY =>
                  /\ {<<"Mean", r>>, <<"Rstd", r>>} \subseteq p.st
                  /\ Mean[r] = p.mean /\ Rstd[r] = p.rstd
            /\ (<<"Mean", r>> \in p.st /\ sameLaunch) => Mean'[r] = Mean[r]
            /\ (<<"Rstd", r>> \in p.st /\ sameLaunch) => Rstd'[r] = Rstd[r]
C5_PassesOrdered == [][C5_StepOrdered]_vars

\* An instance in the middle of its third pass: some of Y's row is stored,
\* some is not, and both statistics are in memory.
C5_Witness ==
    \E r \in Rows :
        /\ proc[r].pc = "norm" /\ 0 < proc[r].col /\ proc[r].col < N
        /\ {<<"Mean", r>>, <<"Rstd", r>>} \subseteq proc[r].st
        /\ Mean[r] = proc[r].mean /\ Rstd[r] = proc[r].rstd

\* C6: the instances share no mutable state.  Instance r stores only to
\* Mean[r], Rstd[r] and Y[r*stride + j], j < N, never to X, W or B, and loads
\* nothing that any instance stores; so whatever the interleaving, a finished
\* launch leaves in Y, Mean and Rstd what the rows run one after another leave.
C6_RowsIndependent ==
    /\ \A r \in Rows :
          proc[r].st \subseteq
              {<<"Mean", r>>, <<"Rstd", r>>} \cup {<<"Y", r * stride + j>> : j \in Cols}
    /\ \A r, t \in Rows : proc[r].ld \cap proc[t].st = {}
    /\ AllDone => OutNow = RunRowsFrom(0, startOut)

\* Two instances on padded rows, both finished.
C6_Witness ==
    /\ M = 2 /\ AllDone /\ stride > N /\ N >= 2
    /\ \A r \in Rows : \A j \in Cols : <<"Y", r * stride + j>> \in proc[r].st

\* C8: the kernel is deterministic and idempotent.  However the instances are
\* scheduled, a finished launch leaves the outputs that the rows run in turn
\* on fresh buffers leave, and a second launch on the buffers the first one
\* left ends with the same Mean, Rstd and Y.
FreshOut ==
    [Y |-> [a \in DOMAIN Y |-> FromQ(Garbage)],
     Mean |-> [r \in Rows |-> Garbage],
     Rstd |-> [r \in Rows |-> FromQ(Garbage)]]
C8_RerunSameOutputs ==
    AllDone =>
        /\ OutNow = RunRowsFrom(0, FreshOut)
        /\ run = "second" => OutNow = startOut

\* The second launch of two instances has finished, on rows whose last chunk
\* has masked lanes.
C8_Witness ==
    /\ run = "second" /\ AllDone /\ M = 2 /\ N % BLOCK_SIZE # 0
    /\ \A r \in Rows : Y[r * stride].c # Q(0)

\* C10: each of the three loops runs exactly ceil(N / BLOCK_SIZE) iterations
\* and ends; the active lanes of the chunks partition the columns 0..N-1, so
\* a pass touches each column exactly once (one accumulation, one store to
\* Y); and every instance runs to completion.
C10_LoopCounts ==
    \A r \in Rows :
        LET p == proc[r]
            k == CeilDiv(N, BLOCK_SIZE)
        IN  /\ p.pc \in {"mean", "var", "norm"} =>
                /\ p.col = p.it * BLOCK_SIZE
                /\ p.it <= k
                /\ (p.col >= N) <=> (p.it = k)
                /\ p.cnt = [j \in 0 .. Min(p.col, N) - 1 |-> 1]
            /\ p.pc = "done" => p.it = k /\ p.cnt = [j \in Cols |-> 1]
C10_LoopsCoverAndEnd ==
    /\ []C10_LoopCounts
    /\ []<>AllDone

\* An instance has completed a row of 3 columns in 2 chunks of 2 lanes.
C10_Witness ==
    \E r \in Rows :
        /\ N = 3 /\ BLOCK_SIZE = 2
        /\ proc[r].pc = "done" /\ proc[r].it = 2
        /\ \A j \in Cols : <<"Y", r * stride + j>> \in proc[r].st

====
